---- MODULE Spec2Model ----
(***************************************************************************)
(* The catalog manager of rancher-catalog-service (manager/catalogManager.go):*)
(* the process-wide Catalog map, its bootstrap (Init), the single-slot      *)
(* refresh gate (RefreshCatalog), the directory walk that fills the map     *)
(* (walkCatalog) and the on-demand read of one version directory            *)
(* (ReadTemplateVersion).                                                    *)
(*                                                                           *)
(* Strings built by concatenation with "/" are modelled as the sequence of  *)
(* their segments: f.Name() + "/" + subfile.Name() is <<f, subfile>>, the   *)
(* empty string is <<>>.  The directory ./DATA/templates is the variable    *)
(* tree; a directory is a function from entry names to nodes.               *)
(***************************************************************************)
EXTENDS Integers, Sequences, FiniteSets, TLC

VARIABLES
    tree,       \* the local mirror below catalogRoot (the file system)
    Catalog,    \* the package variable Catalog: template name -> Template
    gate,       \* number of messages buffered in refreshReqChannel (0 or 1)
    pc,         \* position of every goroutine that runs Init or RefreshCatalog
    pos,        \* per goroutine: index in WalkOrder(tree) of the last path indexed
    alive,      \* FALSE once a panic or log.Fatal has ended the process
    boot,       \* what Init did: "none", "clone", "pull" or "cloneFailed"
    cycle,      \* per goroutine: the mapping at the start of its cycle, and whether its pull failed
    stats,      \* counts of admitted and dropped triggers, pulls and completed walks
    listed,     \* the mapping the last list() read observed
    lk          \* the reader's ReadTemplateVersion call: position, path and result

vars == <<tree, Catalog, gate, pc, pos, alive, boot, cycle, stats, listed, lk>>

----------------------------------------------------------------------------
(* Bounds of the model *)

\* number of goroutines, besides the timer, that call RefreshCatalog
MaxCallers == 1
\* number of RefreshCatalog calls (timer ticks and explicit triggers together)
MaxTriggers == 2

----------------------------------------------------------------------------
(* Goroutines *)

Main  == 0
Timer == 1
Callers == 2 .. (1 + MaxCallers)
Refreshers == {Timer} \cup Callers
Goroutines == {Main} \cup Refreshers

----------------------------------------------------------------------------
(* model.Template and maps *)

EmptyLinks == [x \in {} |-> <<>>]

EmptyTemplate ==
    [ Path |-> <<>>, Name |-> "", Category |-> "", Description |-> "",
      DefaultVersion |-> "", IconLink |-> <<>>, VersionLinks |-> EmptyLinks,
      DockerCompose |-> "", RancherCompose |-> "", Questions |-> <<>> ]

EmptyCatalog == [x \in {} |-> EmptyTemplate]

\* m[k] = v of a Go map
Put(m, k, v) == [x \in (DOMAIN m) \cup {k} |-> IF x = k THEN v ELSE m[x]]

\* config["key"] of a map[string]string: the zero value "" for a missing key
Get(config, k) == IF k \in DOMAIN config THEN config[k] ELSE ""

----------------------------------------------------------------------------
(* The file system below catalogRoot *)

\* every entry name of the model, in the order ioutil.ReadDir and
\* filepath.Walk return names (sorted by byte value)
SortedNames ==
    << "1", "README", "catalogIcon.png", "config.yml", "config.yml.bak",
       "docker-compose.yml", "rancher-compose.yml", "t1", "t2" >>

\* strings.HasPrefix over the names of the model
HasPrefix(name, prefix) ==
    CASE prefix = "config.yml"      -> name \in {"config.yml", "config.yml.bak"}
      [] prefix = "catalogIcon"     -> name \in {"catalogIcon.png"}
      [] prefix = "docker-compose"  -> name \in {"docker-compose.yml"}
      [] prefix = "rancher-compose" -> name \in {"rancher-compose.yml"}
      [] OTHER                      -> FALSE

\* a regular file: ok = it can be read, valid = it parses as YAML,
\* text = its raw contents, yaml = the parsed document
File(ok, valid, text, yaml) ==
    [isDir |-> FALSE, ok |-> ok, valid |-> valid, text |-> text, yaml |-> yaml]

\* a directory: ok = it can be listed and entered
Dir(ok, entries) == [isDir |-> TRUE, ok |-> ok, entries |-> entries]

NoEntries == [x \in {} |-> File(TRUE, TRUE, "", <<>>)]

\* the contents of ./DATA/templates; exists = FALSE when os.Stat/Lstat fails
Root(exists, entries) == [exists |-> exists, entries |-> entries]

\* the names ioutil.ReadDir returns for a directory, sorted
ReadDir(entries) == SelectSeq(SortedNames, LAMBDA n : n \in DOMAIN entries)

----------------------------------------------------------------------------
(* The template parser *)

\* ioutil.ReadFile of one entry of a directory: FALSE when it fails
CanReadFile(entries, name) ==
    /\ name \in DOMAIN entries
    /\ ~entries[name].isDir
    /\ entries[name].ok

\* readTemplateConfig: the four fields are set only when <dir>/config.yml
\* is read and unmarshalled without error
readTemplateConfig(entries, template) ==
    IF ~CanReadFile(entries, "config.yml") THEN template
    ELSE IF ~entries["config.yml"].valid THEN template
    ELSE LET config == entries["config.yml"].yaml IN
         [template EXCEPT !.Name = Get(config, "name"),
                          !.Category = Get(config, "category"),
                          !.Description = Get(config, "description"),
                          !.DefaultVersion = Get(config, "defaultVersion")]

\* walkCatalog, the loop over the entries of a template directory
RECURSIVE ListSubfiles(_, _, _, _, _)
ListSubfiles(names, i, entries, fname, t) ==
    IF i > Len(names) THEN t
    ELSE LET sub == names[i] IN
         ListSubfiles(names, i + 1, entries, fname,
            IF entries[sub].isDir
            THEN [t EXCEPT !.VersionLinks = Put(@, sub, <<fname, sub>>)]
            ELSE IF HasPrefix(sub, "catalogIcon")
            THEN [t EXCEPT !.IconLink = <<fname, sub>>]
            ELSE t)

\* walkCatalog: the Template installed for the template directory fname
NewTemplate(fname, node) ==
    LET t0 == [EmptyTemplate EXCEPT !.Path = <<fname>>]
        t1 == IF node.ok THEN readTemplateConfig(node.entries, t0) ELSE t0
    IN  IF ~node.ok THEN t1
        ELSE ListSubfiles(ReadDir(node.entries), 1, node.entries, fname, t1)

\* the paths below a directory in the order filepath.Walk visits them: each
\* entry in sorted order, a directory followed by what lies below it; a
\* directory that cannot be listed is visited, its contents are not
RECURSIVE Visit(_, _, _, _)
Visit(names, i, entries, prefix) ==
    IF i > Len(names) THEN <<>>
    ELSE LET node == entries[names[i]]
             path == prefix \o <<names[i]>>
         IN  <<path>>
             \o (IF node.isDir /\ node.ok
                 THEN Visit(ReadDir(node.entries), 1, node.entries, path)
                 ELSE <<>>)
             \o Visit(names, i + 1, entries, prefix)

\* the paths filepath.Walk(catalogRoot, walkCatalog) hands to walkCatalog, the
\* root first; a path is the sequence of segments below catalogRoot
WalkOrder(t) == << <<>> >> \o Visit(ReadDir(t.entries), 1, t.entries, <<>>)

\* the file or directory at a path below a directory
RECURSIVE NodeAt(_, _)
NodeAt(node, path) ==
    IF path = <<>> THEN node ELSE NodeAt(node.entries[Head(path)], Tail(path))

\* mutant: the pattern without its closing anchor matches every path below
\* DATA/templates/
MatchStringUnanchored(path) == Len(path) >= 1

\* metadataFolder.MatchString(path), ^DATA/templates/[^/]+$: the path is
\* exactly one segment below the root (the root itself is "./DATA/templates/")
MatchString(path) == Len(path) = 1

\* f.IsDir() && metadataFolder.MatchString(path)
IsMetadataFolder(t, path) ==
    /\ NodeAt(Dir(TRUE, t.entries), path).isDir
    /\ MatchString(path)

\* the index in WalkOrder(t) of the next path, after index p, that walkCatalog
\* indexes; 0 when the walk is over
NextIndex(t, p) ==
    LET S == {i \in (p + 1) .. Len(WalkOrder(t)) : IsMetadataFolder(t, WalkOrder(t)[i])}
    IN  IF S = {} THEN 0 ELSE CHOOSE i \in S : \A j \in S : i <= j

\* f.Name(): the last segment of the path
BaseName(path) == path[Len(path)]

\* readFile: nil (FALSE here) when ioutil.ReadFile fails
readFile(entries, name) == CanReadFile(entries, name)

\* ReadTemplateVersion, one pass of the loop over the entries of the version
\* directory.  s holds newTemplate, foundConfig, foundIcon and whether the pass
\* panicked on the nil that readFile returned; last is the key the range over
\* the unmarshalled rancher-compose sections yields last
ScanEntry(entries, path, sub, s, last) ==
    IF HasPrefix(sub, "config.yml")
    THEN [s EXCEPT !.t = readTemplateConfig(entries, @), !.foundConfig = TRUE]
    ELSE IF HasPrefix(sub, "catalogIcon")
    THEN [s EXCEPT !.t.IconLink = path \o <<sub>>, !.foundIcon = TRUE]
    ELSE IF HasPrefix(sub, "docker-compose")
    THEN IF ~readFile(entries, sub) THEN [s EXCEPT !.panicked = TRUE]
         ELSE [s EXCEPT !.t.DockerCompose = entries[sub].text]
    ELSE IF HasPrefix(sub, "rancher-compose")
    THEN IF ~readFile(entries, sub) THEN [s EXCEPT !.panicked = TRUE]
         ELSE LET s1 == [s EXCEPT !.t.RancherCompose = entries[sub].text]
                  RC == entries[sub].yaml
              IN  IF ~entries[sub].valid \/ DOMAIN RC = {} THEN s1
                  ELSE [s1 EXCEPT !.t.Questions = RC[last].Questions]
    ELSE s

RECURSIVE ScanVersion(_, _, _, _, _, _)
ScanVersion(names, i, entries, path, s, last) ==
    IF i > Len(names) \/ s.panicked THEN s
    ELSE ScanVersion(names, i + 1, entries, path,
                     ScanEntry(entries, path, names[i], s, last), last)

\* the keys the range over the rancher-compose sections can yield last
LastKeys(entries) ==
    LET n == "rancher-compose.yml" IN
    IF readFile(entries, n) /\ entries[n].valid /\ DOMAIN entries[n].yaml # {}
    THEN DOMAIN entries[n].yaml ELSE {"none"}

\* ioutil.ReadDir(catalogRoot + path) succeeds, for a path <<template, version>>
VersionDirExists(t, path) ==
    /\ t.exists
    /\ path[1] \in DOMAIN t.entries
    /\ t.entries[path[1]].isDir /\ t.entries[path[1]].ok
    /\ path[2] \in DOMAIN t.entries[path[1]].entries
    /\ t.entries[path[1]].entries[path[2]].isDir
    /\ t.entries[path[1]].entries[path[2]].ok

VersionEntries(t, path) == t.entries[path[1]].entries[path[2]].entries

----------------------------------------------------------------------------
(* The trees the remote repository can hold: what a clone or a pull leaves *)
(* below catalogRoot                                                       *)

NoYaml == [x \in {} |-> ""]

CfgA == [name |-> "A", category |-> "C", description |-> "D", defaultVersion |-> "1"]
CfgB == [name |-> "B"]
CfgV == [name |-> "V", description |-> "E"]

ConfigFile(config) == File(TRUE, TRUE, "config", config)
IconFile == File(TRUE, TRUE, "png", NoYaml)

NoRoot == Root(FALSE, NoEntries)

\* the template directories the index specification draws from
TemplateA == Dir(TRUE, ("config.yml" :> ConfigFile(CfgA)) @@ ("catalogIcon.png" :> IconFile)
                        @@ ("1" :> Dir(TRUE, NoEntries)))
TemplateB == Dir(TRUE, ("config.yml" :> ConfigFile(CfgB)))

IndexTrees ==
    {NoRoot} \cup
    { Root(TRUE, a @@ b) :
        a \in {NoEntries, "t1" :> TemplateA, "t1" :> TemplateB},
        b \in {NoEntries, "t2" :> TemplateA, "README" :> File(TRUE, FALSE, "readme", NoYaml)} }

\* the version directories and parents the version specification draws from
DockerFile(ok) == File(ok, TRUE, "web", NoYaml)

VersionDirs ==
    { Dir(TRUE, c @@ i @@ d) :
        c \in {NoEntries, "config.yml" :> ConfigFile(CfgV)},
        i \in {NoEntries, "catalogIcon.png" :> IconFile},
        d \in {NoEntries, "docker-compose.yml" :> DockerFile(TRUE),
                          "docker-compose.yml" :> DockerFile(FALSE)} }

ParentFiles ==
    { ("config.yml" :> ConfigFile(CfgA)) @@ ("catalogIcon.png" :> IconFile),
      ("config.yml" :> ConfigFile(CfgB)) }

VersionTrees ==
    {NoRoot, Root(TRUE, NoEntries)} \cup
    { Root(TRUE, "t1" :> Dir(TRUE, p @@ v)) :
        p \in ParentFiles,
        v \in {NoEntries} \cup {"1" :> d : d \in VersionDirs} }

\* the version directories the file specification draws from: a config entry
\* that is a backup copy only, malformed or unreadable, and a rancher-compose
\* file with one section, two sections, malformed questions, or unreadable
Questions == <<"q1", "q2">>
CatalogSection == [Questions |-> Questions]
ServiceSection == [Questions |-> <<>>]
NoSections == [x \in {} |-> ServiceSection]

RancherFile(ok, valid, yaml) == File(ok, valid, "rancher", yaml)

FileDirs ==
    { Dir(TRUE, e) :
        e \in { NoEntries,
                "config.yml.bak" :> ConfigFile(CfgV),
                "config.yml" :> File(TRUE, FALSE, "config", NoYaml),
                "config.yml" :> File(FALSE, TRUE, "config", CfgV),
                "rancher-compose.yml" :> RancherFile(TRUE, TRUE, ".catalog" :> CatalogSection),
                "rancher-compose.yml" :> RancherFile(TRUE, TRUE,
                                           (".catalog" :> CatalogSection) @@ ("web" :> ServiceSection)),
                "rancher-compose.yml" :> RancherFile(TRUE, FALSE, NoSections),
                "rancher-compose.yml" :> RancherFile(FALSE, TRUE, NoSections) } }

\* a template directory that cannot be listed, next to one that can
UnreadableTemplate == Dir(FALSE, TemplateA.entries)

FileTrees ==
    {NoRoot, Root(TRUE, ("t1" :> UnreadableTemplate) @@ ("t2" :> TemplateA))} \cup
    { Root(TRUE, "t1" :> Dir(TRUE, ("config.yml" :> ConfigFile(CfgA))
                                   @@ ("catalogIcon.png" :> IconFile) @@ ("1" :> d))) :
        d \in FileDirs }

\* the trees the service specification draws from
ServiceTrees == {NoRoot, Root(TRUE, NoEntries), Root(TRUE, "t1" :> TemplateA)}

\* the paths the reader asks for
LookupPaths == { <<"t1", "1">> }

----------------------------------------------------------------------------
(* Init() and RefreshCatalog() *)

\* capacity of refreshReqChannel
GateCapacity == 1

\* mutant: a channel made with room for two messages
CanSendTwo(n) == n < GateCapacity + 1

\* the select case "refreshReqChannel <- 1" can proceed: the buffer is not full
CanSend(n) == n < GateCapacity

NoCycle == [start |-> EmptyCatalog, pullFailed |-> FALSE]

\* the reader's call: its position and the locals of ReadTemplateVersion (exists:
\* ReadDir returned no error), and the template last returned for a directory
\* that ReadDir could not read
NoLookup == [pc |-> "idle", path |-> <<>>, exists |-> FALSE,
             foundConfig |-> FALSE, foundIcon |-> FALSE, t |-> EmptyTemplate,
             notFound |-> [seen |-> FALSE, t |-> EmptyTemplate]]

\* the state after the package variables are initialised, with the mirror
\* either missing or left by an earlier run
InitOver(U) ==
    /\ tree \in U
    /\ Catalog = EmptyCatalog
    /\ gate = 0
    /\ pc = [g \in Goroutines |-> IF g = Main THEN "init" ELSE IF g = Timer THEN "off" ELSE "idle"]
    /\ pos = [g \in Goroutines |-> 0]
    /\ alive = TRUE
    /\ boot = "none"
    /\ cycle = [g \in Goroutines |-> NoCycle]
    /\ stats = [admits |-> 0, drops |-> 0, syncs |-> 0, rebuilds |-> 0]
    /\ listed = EmptyCatalog
    /\ lk = NoLookup

\* Init, mirror present: pullCatalog (its failure is only logged), then a new map
BootPull(U) ==
    /\ alive /\ pc[Main] = "init"
    /\ tree.exists
    /\ \E ok \in BOOLEAN :
         /\ IF ok THEN tree' \in U ELSE tree' = tree
         /\ cycle' = [cycle EXCEPT ![Main] = [start |-> EmptyCatalog, pullFailed |-> ~ok]]
    /\ boot' = "pull"
    /\ Catalog' = EmptyCatalog
    /\ pc' = [pc EXCEPT ![Main] = "walk"]
    /\ pos' = [pos EXCEPT ![Main] = 0]
    /\ UNCHANGED <<gate, alive, stats, listed, lk>>

\* Init, mirror missing: cloneCatalog succeeds, then a new map
BootClone(U) ==
    /\ alive /\ pc[Main] = "init"
    /\ ~tree.exists
    /\ tree' \in U
    /\ boot' = "clone"
    /\ Catalog' = EmptyCatalog
    /\ pc' = [pc EXCEPT ![Main] = "walk"]
    /\ pos' = [pos EXCEPT ![Main] = 0]
    /\ cycle' = [cycle EXCEPT ![Main] = NoCycle]
    /\ UNCHANGED <<gate, alive, stats, listed, lk>>

\* mutant: a failed clone is only logged, as a failed pull is
BootCloneFailLogged ==
    /\ alive /\ pc[Main] = "init"
    /\ ~tree.exists
    /\ boot' = "cloneFailed"
    /\ Catalog' = EmptyCatalog
    /\ pc' = [pc EXCEPT ![Main] = "walk"]
    /\ UNCHANGED <<tree, gate, pos, alive, cycle, stats, listed, lk>>

\* Init, mirror missing: cloneCatalog fails and log.Fatal ends the process
BootCloneFail ==
    /\ alive /\ pc[Main] = "init"
    /\ ~tree.exists
    /\ boot' = "cloneFailed"
    /\ alive' = FALSE
    /\ UNCHANGED <<tree, Catalog, gate, pc, pos, cycle, stats, listed, lk>>

\* a RefreshCatalog call can start: the timer once started, a caller once Init returned
CanTrigger(g) ==
    /\ alive /\ pc[g] = "idle"
    /\ g \in Callers => pc[Main] = "serving"
    /\ stats.admits + stats.drops < MaxTriggers

\* RefreshCatalog, select case refreshReqChannel <- 1
Admit(g) ==
    /\ CanTrigger(g)
    /\ CanSend(gate)
    /\ gate' = gate + 1
    /\ pc' = [pc EXCEPT ![g] = "pull"]
    /\ stats' = [stats EXCEPT !.admits = @ + 1]
    /\ UNCHANGED <<tree, Catalog, pos, alive, boot, cycle, listed, lk>>

\* mutant: without the default case the call is not dropped: it goes on to pull
DropQueued(g) ==
    /\ CanTrigger(g)
    /\ ~CanSend(gate)
    /\ pc' = [pc EXCEPT ![g] = "pull"]
    /\ stats' = [stats EXCEPT !.drops = @ + 1]
    /\ UNCHANGED <<tree, Catalog, gate, pos, alive, boot, cycle, listed, lk>>

\* RefreshCatalog, select default: logs and returns
Drop(g) ==
    /\ CanTrigger(g)
    /\ ~CanSend(gate)
    /\ stats' = [stats EXCEPT !.drops = @ + 1]
    /\ UNCHANGED <<tree, Catalog, gate, pc, pos, alive, boot, cycle, listed, lk>>

\* mutant: a failed pull ends the cycle: the gate is released without a walk
SyncStopOnFailure(g, U) ==
    /\ alive /\ pc[g] = "pull"
    /\ \E ok \in BOOLEAN :
         /\ IF ok THEN tree' \in U ELSE tree' = tree
         /\ cycle' = [cycle EXCEPT ![g] = [start |-> Catalog, pullFailed |-> ~ok]]
         /\ pc' = [pc EXCEPT ![g] = IF ok THEN "walk" ELSE "idle"]
         /\ gate' = IF ok THEN gate ELSE gate - 1
    /\ pos' = [pos EXCEPT ![g] = 0]
    /\ stats' = [stats EXCEPT !.syncs = @ + 1]
    /\ UNCHANGED <<Catalog, alive, boot, listed, lk>>

\* RefreshCatalog: pullCatalog, whose failure is only logged
Sync(g, U) ==
    /\ alive /\ pc[g] = "pull"
    /\ \E ok \in BOOLEAN :
         /\ IF ok THEN tree' \in U ELSE tree' = tree
         /\ cycle' = [cycle EXCEPT ![g] = [start |-> Catalog, pullFailed |-> ~ok]]
    /\ pc' = [pc EXCEPT ![g] = "walk"]
    /\ pos' = [pos EXCEPT ![g] = 0]
    /\ stats' = [stats EXCEPT !.syncs = @ + 1]
    /\ UNCHANGED <<Catalog, gate, alive, boot, listed, lk>>

\* filepath.Walk calls walkCatalog with f = nil when Lstat of the root fails:
\* f.IsDir() panics and the process ends
WalkPanic(g) ==
    /\ alive /\ pc[g] = "walk"
    /\ ~tree.exists
    /\ alive' = FALSE
    /\ UNCHANGED <<tree, Catalog, gate, pc, pos, boot, cycle, stats, listed, lk>>

\* mutant: newTemplate starts from the entry already in the map, so the icon
\* path is appended to the one of the previous rebuild
WalkStepAccumulating(g) ==
    /\ alive /\ pc[g] = "walk"
    /\ tree.exists
    /\ NextIndex(tree, pos[g]) # 0
    /\ LET i == NextIndex(tree, pos[g])
           path == WalkOrder(tree)[i]
           fname == BaseName(path)
           new == NewTemplate(fname, NodeAt(Dir(TRUE, tree.entries), path))
       IN  /\ Catalog' = Put(Catalog, fname,
                             IF fname \in DOMAIN Catalog
                             THEN [new EXCEPT !.IconLink = Catalog[fname].IconLink \o @]
                             ELSE new)
           /\ pos' = [pos EXCEPT ![g] = i]
    /\ UNCHANGED <<tree, gate, pc, alive, boot, cycle, stats, listed, lk>>

\* walkCatalog on the next template directory: Catalog[f.Name()] = newTemplate
WalkStep(g) ==
    /\ alive /\ pc[g] = "walk"
    /\ tree.exists
    /\ NextIndex(tree, pos[g]) # 0
    /\ LET i == NextIndex(tree, pos[g])
           path == WalkOrder(tree)[i]
           fname == BaseName(path)
       IN  /\ Catalog' = Put(Catalog, fname,
                             NewTemplate(fname, NodeAt(Dir(TRUE, tree.entries), path)))
           /\ pos' = [pos EXCEPT ![g] = i]
    /\ UNCHANGED <<tree, gate, pc, alive, boot, cycle, stats, listed, lk>>

\* Init: filepath.Walk returned, startCatalogBackgroundPoll starts the ticker
BootDone ==
    /\ alive /\ pc[Main] = "walk"
    /\ tree.exists
    /\ NextIndex(tree, pos[Main]) = 0
    /\ pc' = [pc EXCEPT ![Main] = "serving", ![Timer] = "idle"]
    /\ pos' = [pos EXCEPT ![Main] = 0]
    /\ cycle' = [cycle EXCEPT ![Main] = NoCycle]
    /\ UNCHANGED <<tree, Catalog, gate, alive, boot, stats, listed, lk>>

\* RefreshCatalog: filepath.Walk returned, <-refreshReqChannel
Release(g) ==
    /\ alive /\ g \in Refreshers /\ pc[g] = "walk"
    /\ tree.exists
    /\ NextIndex(tree, pos[g]) = 0
    /\ gate' = gate - 1
    /\ pc' = [pc EXCEPT ![g] = "idle"]
    /\ pos' = [pos EXCEPT ![g] = 0]
    /\ stats' = [stats EXCEPT !.rebuilds = @ + 1]
    /\ cycle' = [cycle EXCEPT ![g].start = EmptyCatalog]
    /\ UNCHANGED <<tree, Catalog, alive, boot, listed, lk>>

\* list(): a caller reads the package variable Catalog
List ==
    /\ alive /\ pc[Main] = "serving"
    /\ listed' = Catalog
    /\ UNCHANGED <<tree, Catalog, gate, pc, pos, alive, boot, cycle, stats, lk>>

\* filepath.Walk(catalogRoot, walkCatalog) from the root entry after index p to
\* the end, on the mapping m: the mapping the walk leaves
RECURSIVE WalkFrom(_, _, _)
WalkFrom(m, t, p) ==
    LET i == NextIndex(t, p) IN
    IF i = 0 THEN m
    ELSE LET path == WalkOrder(t)[i] IN
         WalkFrom(Put(m, BaseName(path),
                      NewTemplate(BaseName(path), NodeAt(Dir(TRUE, t.entries), path))),
                  t, i)

----------------------------------------------------------------------------
(* ReadTemplateVersion(path), called by a reader.  The call is three steps: *)
(* the read of the version directory, then the two reads of Catalog.        *)

\* ReadTemplateVersion up to the end of the loop over the directory, as the
\* state of the call: with ReadDir's error the template is returned as it is
ScannedVersion(t, path, last) ==
    LET t0 == [EmptyTemplate EXCEPT !.Path = path]
        call == [NoLookup EXCEPT !.path = path, !.t = t0]
    IN  IF ~VersionDirExists(t, path)
        THEN [call EXCEPT !.pc = "done"]
        ELSE LET entries == VersionEntries(t, path)
                 s == ScanVersion(ReadDir(entries), 1, entries, path,
                        [t |-> t0, foundConfig |-> FALSE, foundIcon |-> FALSE,
                         panicked |-> FALSE], last)
             IN  [call EXCEPT !.pc = IF s.panicked THEN "panic" ELSE "inheritConfig",
                              !.exists = TRUE,
                              !.foundConfig = s.foundConfig,
                              !.foundIcon = s.foundIcon,
                              !.t = IF s.panicked THEN t0 ELSE s.t]

\* mutant: the category is copied from the parent's name
InheritedConfigSwapped(l, catalog) ==
    LET parentPath == l.path[1] IN
    IF ~l.foundConfig /\ parentPath \in DOMAIN catalog
    THEN LET parentMetadata == catalog[parentPath] IN
         [l EXCEPT !.pc = "inheritIcon",
                   !.t.Name = parentMetadata.Name,
                   !.t.Category = parentMetadata.Name,
                   !.t.Description = parentMetadata.Description,
                   !.t.DefaultVersion = parentMetadata.DefaultVersion]
    ELSE [l EXCEPT !.pc = "inheritIcon"]

\* mutant: the parent config is used whether or not the version has its own
InheritedConfigAlways(l, catalog) ==
    LET parentPath == l.path[1] IN
    IF parentPath \in DOMAIN catalog
    THEN LET parentMetadata == catalog[parentPath] IN
         [l EXCEPT !.pc = "inheritIcon",
                   !.t.Name = parentMetadata.Name,
                   !.t.Category = parentMetadata.Category,
                   !.t.Description = parentMetadata.Description,
                   !.t.DefaultVersion = parentMetadata.DefaultVersion]
    ELSE [l EXCEPT !.pc = "inheritIcon"]

\* if !foundConfig: the four fields of Catalog[tokens[0]], when it is there
InheritedConfig(l, catalog) ==
    LET parentPath == l.path[1] IN
    IF ~l.foundConfig /\ parentPath \in DOMAIN catalog
    THEN LET parentMetadata == catalog[parentPath] IN
         [l EXCEPT !.pc = "inheritIcon",
                   !.t.Name = parentMetadata.Name,
                   !.t.Category = parentMetadata.Category,
                   !.t.Description = parentMetadata.Description,
                   !.t.DefaultVersion = parentMetadata.DefaultVersion]
    ELSE [l EXCEPT !.pc = "inheritIcon"]

\* mutant: a parent that is not in the mapping ends the call with a panic
InheritedIconStrict(l, catalog) ==
    LET parentPath == l.path[1] IN
    IF l.foundIcon THEN [l EXCEPT !.pc = "done"]
    ELSE IF parentPath \in DOMAIN catalog
    THEN [l EXCEPT !.pc = "done", !.t.IconLink = catalog[parentPath].IconLink]
    ELSE [l EXCEPT !.pc = "panic"]

\* if !foundIcon: the IconLink of Catalog[tokens[0]], when it is there; return
InheritedIcon(l, catalog) ==
    LET parentPath == l.path[1] IN
    IF ~l.foundIcon /\ parentPath \in DOMAIN catalog
    THEN [l EXCEPT !.pc = "done", !.t.IconLink = catalog[parentPath].IconLink]
    ELSE [l EXCEPT !.pc = "done"]

\* a reader calls ReadTemplateVersion(path): ioutil.ReadDir and the loop
ReadVersionDir(path) ==
    /\ alive /\ pc[Main] = "serving"
    /\ lk.pc \in {"idle", "done"}
    /\ \E last \in (IF VersionDirExists(tree, path)
                    THEN LastKeys(VersionEntries(tree, path)) ELSE {"none"}) :
         LET l == ScannedVersion(tree, path, last) IN
         lk' = [l EXCEPT !.notFound = IF l.exists THEN lk.notFound
                                      ELSE [seen |-> TRUE, t |-> l.t]]
    /\ UNCHANGED <<tree, Catalog, gate, pc, pos, alive, boot, cycle, stats, listed>>

\* mutant: the call stores the template it is building in the package map
InheritConfigCaching ==
    /\ alive /\ lk.pc = "inheritConfig"
    /\ lk' = InheritedConfig(lk, Catalog)
    /\ Catalog' = Put(Catalog, lk.path[2], lk'.t)
    /\ UNCHANGED <<tree, gate, pc, pos, alive, boot, cycle, stats, listed>>

InheritConfig ==
    /\ alive /\ lk.pc = "inheritConfig"
    /\ lk' = InheritedConfig(lk, Catalog)
    /\ UNCHANGED <<tree, Catalog, gate, pc, pos, alive, boot, cycle, stats, listed>>

InheritIcon ==
    /\ alive /\ lk.pc = "inheritIcon"
    /\ lk' = InheritedIcon(lk, Catalog)
    /\ UNCHANGED <<tree, Catalog, gate, pc, pos, alive, boot, cycle, stats, listed>>

----------------------------------------------------------------------------
(* The index specification: bootstrap, timer and callers of RefreshCatalog, *)
(* and a reader of the mapping                                              *)

Init == InitOver(IndexTrees)

Next ==
    \/ BootPull(IndexTrees)
    \/ BootClone(IndexTrees)
    \/ BootCloneFail
    \/ BootDone
    \/ \E g \in Refreshers : Admit(g)
    \/ \E g \in Refreshers : Drop(g)
    \/ \E g \in Refreshers : Sync(g, IndexTrees)
    \/ \E g \in Goroutines : WalkStep(g)
    \/ \E g \in Goroutines : WalkPanic(g)
    \/ \E g \in Refreshers : Release(g)
    \/ List

Spec == Init /\ [][Next]_vars

----------------------------------------------------------------------------
(* The version specification: bootstrap, the timer's refresh cycles, and a *)
(* reader calling ReadTemplateVersion                                      *)

InitV == InitOver(VersionTrees)

NextV ==
    \/ BootPull(VersionTrees)
    \/ BootClone(VersionTrees)
    \/ BootCloneFail
    \/ BootDone
    \/ Admit(Timer)
    \/ Sync(Timer, VersionTrees)
    \/ \E g \in {Main, Timer} : WalkStep(g)
    \/ \E g \in {Main, Timer} : WalkPanic(g)
    \/ Release(Timer)
    \/ \E path \in LookupPaths : ReadVersionDir(path)
    \/ InheritConfig
    \/ InheritIcon

SpecV == InitV /\ [][NextV]_vars

----------------------------------------------------------------------------
(* The service specification: everything that runs in the process at once,  *)
(* bootstrap, timer and callers of RefreshCatalog, readers of the mapping    *)
(* and of a version directory, over a few trees                              *)

InitAll == InitOver(ServiceTrees)

NextAll ==
    \/ BootPull(ServiceTrees)
    \/ BootClone(ServiceTrees)
    \/ BootCloneFail
    \/ BootDone
    \/ \E g \in Refreshers : Admit(g)
    \/ \E g \in Refreshers : Drop(g)
    \/ \E g \in Refreshers : Sync(g, ServiceTrees)
    \/ \E g \in Goroutines : WalkStep(g)
    \/ \E g \in Goroutines : WalkPanic(g)
    \/ \E g \in Refreshers : Release(g)
    \/ List
    \/ \E path \in LookupPaths : ReadVersionDir(path)
    \/ InheritConfig
    \/ InheritIcon

SpecAll == InitAll /\ [][NextAll]_vars

----------------------------------------------------------------------------
(* The file specification: bootstrap over trees with entries that cannot be *)
(* read or parsed, and a reader calling ReadTemplateVersion; no refresh     *)
(* cycle runs, so the tree a call reads is the tree the bootstrap walked    *)

InitF == InitOver(FileTrees)

NextF ==
    \/ BootPull(FileTrees)
    \/ BootClone(FileTrees)
    \/ BootCloneFail
    \/ BootDone
    \/ WalkStep(Main)
    \/ WalkPanic(Main)
    \/ \E path \in LookupPaths : ReadVersionDir(path)
    \/ InheritConfig
    \/ InheritIcon

SpecF == InitF /\ [][NextF]_vars

----------------------------------------------------------------------------
(* Properties of the refresh cycle and of the published mapping *)

InCycle(g) == pc[g] \in {"pull", "walk"}

\* the template directories of a tree
TemplateDirs(t) == {n \in DOMAIN t.entries : t.entries[n].isDir}

\* no RefreshCatalog call and no Init is under way
Quiescent ==
    /\ alive /\ pc[Main] = "serving"
    /\ \A g \in Refreshers : pc[g] = "idle"

\* C1: a list() read made while a refresh cycle walks the tree observes either the
\* mapping as it was when the cycle started or the mapping the walk ends with
AtomicVisibility ==
    [][ List => \A g \in Refreshers :
                  pc[g] = "walk" =>
                    listed' \in {cycle[g].start, WalkFrom(cycle[g].start, tree, 0)} ]_vars

\* C2: at most one refresh cycle is in progress, it is the holder of the gate, every
\* admitted trigger makes exactly one pull and one walk, and of two triggers of
\* which one was dropped exactly one pull and one walk result
SingleFlight ==
    LET pulling == Cardinality({g \in Refreshers : pc[g] = "pull"})
        walking == Cardinality({g \in Refreshers : pc[g] = "walk"})
    IN  /\ pulling + walking <= 1
        /\ pulling + walking = gate
        /\ stats.syncs + pulling = stats.admits
        /\ stats.rebuilds + walking + pulling = stats.admits
        /\ (Quiescent /\ stats.admits + stats.drops = 2 /\ stats.drops = 1)
              => (stats.syncs = 1 /\ stats.rebuilds = 1)

\* C2 witness: two triggers, the second dropped while the first ran, both returned
SingleFlightWitness ==
    /\ Quiescent
    /\ stats = [admits |-> 1, drops |-> 1, syncs |-> 1, rebuilds |-> 1]
    /\ gate = 0

FreshMapping == Quiescent => DOMAIN Catalog = TemplateDirs(tree)

\* C9: whether the pull failed or not the cycle goes on to the walk; a cycle whose
\* pull failed ends with the gate released and with the mapping that was served
\* when it started, which is what the walk of the unchanged tree rebuilds
PullFailureKeepsServing ==
    [][ \A g \in Refreshers :
          /\ (pc[g] = "pull" /\ pc'[g] # "pull")
                => (pc'[g] = "walk" /\ gate' = gate /\ Catalog' = Catalog)
          /\ (pc[g] = "pull" /\ pc'[g] # "pull" /\ cycle'[g].pullFailed) => tree' = tree
          /\ (pc[g] = "walk" /\ pc'[g] = "idle" /\ cycle[g].pullFailed)
                => /\ gate' = 0
                   /\ Catalog' = WalkFrom(cycle[g].start, tree, 0)
                   /\ Catalog' = cycle[g].start
      ]_vars

\* C9 witness: a cycle whose pull failed has walked the tree and released the gate,
\* and templates are served
PullFailureWitness ==
    /\ Quiescent /\ gate = 0 /\ stats.rebuilds = 1 /\ stats.syncs = 1
    /\ \E g \in Refreshers : cycle[g].pullFailed
    /\ DOMAIN Catalog = {"t1", "t2"}

\* C10: Init clones exactly when the mirror is missing and pulls otherwise; the walk
\* follows; the timer is started, and any refresh cycle runs, only after that walk
\* has returned; a failed clone ends the process before any walk or timer
BootstrapOrdering ==
    [][ /\ (boot = "none" /\ boot' # "none")
              => /\ (boot' \in {"clone", "cloneFailed"}) = ~tree.exists
                 /\ (boot' = "pull") = tree.exists
                 /\ (boot' \in {"clone", "pull"})
                       => (pc'[Main] = "walk" /\ alive' /\ Catalog' = EmptyCatalog)
        /\ boot' = "cloneFailed"
              => /\ ~alive' /\ pc'[Main] = "init" /\ pc'[Timer] = "off"
                 /\ Catalog' = EmptyCatalog
        /\ pc'[Timer] # "off" => pc'[Main] = "serving"
        /\ pc'[Main] # "serving" => (gate' = 0 /\ ~InCycle(Timer)' /\ stats'.syncs = 0)
        /\ (pc[Main] = "walk" /\ pc'[Main] = "serving")
              => (Catalog' = WalkFrom(EmptyCatalog, tree, 0) /\ pc[Timer] = "off")
      ]_vars

\* C10 witness: the mirror was cloned and walked, and the timer, started after the
\* walk, runs a refresh cycle
BootstrapWitness ==
    /\ boot = "clone" /\ pc[Main] = "serving"
    /\ pc[Timer] = "walk"
    /\ DOMAIN Catalog # {}

\* the fields of a template summary that two mappings are compared on
Summary(t) ==
    [ name |-> t.Name, category |-> t.Category, description |-> t.Description,
      defaultVersion |-> t.DefaultVersion, iconPath |-> t.IconLink,
      versionLinks |-> t.VersionLinks ]

Summaries(m) == [k \in DOMAIN m |-> Summary(m[k])]

\* C13: a refresh cycle that acquired the gate can always go on to release it:
\* while the gate is held its holder is in the cycle and still runs, whatever
\* the pull did and whatever the walk finds, a missing root included
ReturnToIdle ==
    gate = 1 => \E g \in Refreshers : InCycle(g) /\ alive

\* C16: after the bootstrap rebuild a template directory that could not be listed
\* has no entry in the mapping, and every template directory that could be listed
\* has the entry the parser makes of it
UnreadableTemplateExcluded ==
    (alive /\ pc[Main] = "serving")
       => \A n \in TemplateDirs(tree) :
            IF tree.entries[n].ok
            THEN /\ n \in DOMAIN Catalog
                 /\ Summary(Catalog[n]) = Summary(NewTemplate(n, tree.entries[n]))
            ELSE n \notin DOMAIN Catalog

\* C17: an entry that a rebuild writes has for key the name of a directory lying
\* exactly one segment below the root, that name for path, one version link
\* label -> <<key, label>> for each subdirectory of a directory that can be listed
\* and no other, and an icon path only from a file directly below it whose name
\* starts with catalogIcon; a rebuild that ends has written every such directory,
\* and the bootstrap, which starts from the empty mapping, nothing else
TemplateDiscovery ==
    [][ /\ \A k \in DOMAIN Catalog' :
             (k \notin DOMAIN Catalog \/ Catalog'[k] # Catalog[k])
               => /\ k \in TemplateDirs(tree)
                  /\ Catalog'[k].Path = <<k>>
                  /\ tree.entries[k].ok
                        => LET e == tree.entries[k].entries
                               icons == {n \in DOMAIN e :
                                           ~e[n].isDir /\ HasPrefix(n, "catalogIcon")}
                               links == Catalog'[k].VersionLinks
                           IN  /\ DOMAIN links = {n \in DOMAIN e : e[n].isDir}
                               /\ \A n \in DOMAIN links : links[n] = <<k, n>>
                               /\ (icons = {}) = (Catalog'[k].IconLink = <<>>)
                               /\ icons # {}
                                     => \E n \in icons : Catalog'[k].IconLink = <<k, n>>
        /\ \A g \in Goroutines :
             (pc[g] = "walk" /\ pc'[g] \in {"idle", "serving"})
               => /\ TemplateDirs(tree) \subseteq DOMAIN Catalog'
                  /\ g = Main => DOMAIN Catalog' = TemplateDirs(tree)
      ]_vars

\* C17 witness: the bootstrap has walked a root holding a file and a template with
\* a config file, an icon and a version directory; the template alone is a key
TemplateDiscoveryWitness ==
    /\ alive /\ pc[Main] = "serving" /\ stats.syncs = 0
    /\ DOMAIN tree.entries = {"README", "t1"}
    /\ DOMAIN Catalog = {"t1"}
    /\ Catalog["t1"].VersionLinks = ("1" :> <<"t1", "1">>)
    /\ Catalog["t1"].IconLink = <<"t1", "catalogIcon.png">>

\* C11: a rebuild, bootstrap or refresh, started on any published mapping leaves
\* the mapping that the walk of the tree makes of it, and a second rebuild run
\* next on the same tree leaves a mapping with the same keys and, key by key, the
\* same name, category, description, default version, icon path and version links
RebuildIdempotence ==
    [][ \A g \in Goroutines :
          (pc[g] = "walk" /\ pc'[g] \in {"idle", "serving"})
            => LET first == WalkFrom(cycle[g].start, tree, 0)
                   second == WalkFrom(first, tree, 0)
               IN  /\ Summaries(Catalog') = Summaries(first)
                   /\ DOMAIN second = DOMAIN first
                   /\ Summaries(second) = Summaries(first)
      ]_vars

\* C11 witness: after the bootstrap two refresh cycles whose pulls failed, so that
\* all three rebuilds walked one tree, have completed, and templates with an icon
\* and version links are published
RebuildTwiceWitness ==
    /\ Quiescent /\ stats.rebuilds = 2
    /\ \A g \in Refreshers : cycle[g].pullFailed
    /\ "t1" \in DOMAIN Catalog
    /\ Catalog["t1"].IconLink # <<>> /\ DOMAIN Catalog["t1"].VersionLinks # {}
    /\ Catalog = WalkFrom(EmptyCatalog, tree, 0)

----------------------------------------------------------------------------
(* Properties of ReadTemplateVersion *)

ConfigFields(t) == <<t.Name, t.Category, t.Description, t.DefaultVersion>>

\* the step of the call that reads the version directory, the step that reads the
\* parent's config and the step that reads the parent's icon and returns
ScanStep    == lk.pc \in {"idle", "done"} /\ lk' # lk /\ lk'.pc # lk.pc
ConfigStep  == lk.pc = "inheritConfig" /\ lk'.pc = "inheritIcon"
IconStep    == lk.pc = "inheritIcon" /\ lk'.pc = "done"

\* the entries of the directory the call reads whose name has the prefix
EntriesWithPrefix(path, prefix) ==
    {n \in DOMAIN VersionEntries(tree, path) : HasPrefix(n, prefix)}

\* C5: a call on a version directory without a config entry returns the four
\* config fields of the parent's entry in Catalog, read when the call looks the
\* parent up, and without an icon entry the parent's IconLink
InheritFromParent ==
    [][ /\ (ConfigStep /\ ~lk.foundConfig /\ lk.path[1] \in DOMAIN Catalog)
              => ConfigFields(lk'.t) = ConfigFields(Catalog[lk.path[1]])
        /\ IconStep => ConfigFields(lk'.t) = ConfigFields(lk.t)
        /\ (IconStep /\ ~lk.foundIcon /\ lk.path[1] \in DOMAIN Catalog)
              => lk'.t.IconLink = Catalog[lk.path[1]].IconLink
        /\ \A path \in LookupPaths :
             (lk'.pc = "inheritConfig" /\ lk.pc # "inheritConfig" /\ lk'.path = path)
               => /\ lk'.foundConfig = (EntriesWithPrefix(path, "config.yml") # {})
                  /\ lk'.foundIcon = (EntriesWithPrefix(path, "catalogIcon") # {})
      ]_vars

\* C5 witness: a call on t1/1, which has neither config nor icon, returned the
\* name, category, description, default version and icon of t1
InheritWitness ==
    /\ lk.pc = "done" /\ lk.exists /\ ~lk.foundConfig /\ ~lk.foundIcon
    /\ ConfigFields(lk.t) = <<"A", "C", "D", "1">>
    /\ lk.t.IconLink = <<"t1", "catalogIcon.png">>
    /\ "t1" \in DOMAIN Catalog /\ ConfigFields(Catalog["t1"]) = ConfigFields(lk.t)

\* C6: a call on a version directory with its own readable config.yml returns the
\* four fields of that file (the empty string for a key it lacks) whatever the
\* parent's entry holds, and with its own icon entry the path of that icon
OwnConfigOverrides ==
    [][ /\ \A path \in LookupPaths :
             (lk'.pc = "inheritConfig" /\ lk.pc # "inheritConfig" /\ lk'.path = path)
               => LET entries == VersionEntries(tree, path) IN
                  /\ (CanReadFile(entries, "config.yml") /\ entries["config.yml"].valid)
                       => /\ lk'.foundConfig
                          /\ ConfigFields(lk'.t) =
                               << Get(entries["config.yml"].yaml, "name"),
                                  Get(entries["config.yml"].yaml, "category"),
                                  Get(entries["config.yml"].yaml, "description"),
                                  Get(entries["config.yml"].yaml, "defaultVersion") >>
                  /\ "catalogIcon.png" \in DOMAIN entries
                       => lk'.foundIcon /\ lk'.t.IconLink = path \o <<"catalogIcon.png">>
        /\ ((ConfigStep \/ IconStep) /\ lk.foundConfig)
              => ConfigFields(lk'.t) = ConfigFields(lk.t)
        /\ ((ConfigStep \/ IconStep) /\ lk.foundIcon)
              => lk'.t.IconLink = lk.t.IconLink
      ]_vars

\* C6 witness: t1/1 has its own config (name V, no category) and its own icon, the
\* parent's entry has category C and its own icon, and the call returned V, no
\* category and the version's icon
OverrideWitness ==
    /\ lk.pc = "done" /\ lk.foundConfig /\ lk.foundIcon
    /\ ConfigFields(lk.t) = <<"V", "", "E", "">>
    /\ lk.t.IconLink = <<"t1", "1", "catalogIcon.png">>
    /\ "t1" \in DOMAIN Catalog
    /\ ConfigFields(Catalog["t1"]) = <<"A", "C", "D", "1">>
    /\ Catalog["t1"].IconLink = <<"t1", "catalogIcon.png">>

\* C7: the template returned for a version directory that does not exist differs
\* from every template returned for a version directory that exists
NotFoundIsDistinct ==
    (lk.pc = "done" /\ lk.exists /\ lk.notFound.seen) => lk.t # lk.notFound.t

\* C8: when the parent is not in Catalog, the two lookups leave the template as the
\* directory scan made it and the call returns: the inherited fields are empty and
\* the fields read from the directory are kept
MissingParentResilience ==
    [][ /\ (ConfigStep /\ lk.path[1] \notin DOMAIN Catalog)
              => /\ lk'.t = lk.t
                 /\ ~lk.foundConfig => ConfigFields(lk'.t) = <<"", "", "", "">>
        /\ (lk.pc = "inheritIcon" /\ lk' # lk /\ lk.path[1] \notin DOMAIN Catalog)
              => /\ lk'.pc = "done"
                 /\ lk'.t = lk.t
                 /\ ~lk.foundIcon => lk'.t.IconLink = <<>>
        /\ \A path \in LookupPaths :
             (lk'.pc = "inheritConfig" /\ lk.pc # "inheritConfig" /\ lk'.path = path)
               => LET entries == VersionEntries(tree, path) IN
                  /\ lk'.t.Path = path
                  /\ "docker-compose.yml" \in DOMAIN entries
                       => lk'.t.DockerCompose = entries["docker-compose.yml"].text
      ]_vars

\* C8 witness: t1/1 exists with a compose file and no config or icon, t1 is not in
\* Catalog, and the call returned the compose text with the inherited fields empty
MissingParentWitness ==
    /\ lk.pc = "done" /\ lk.exists /\ ~lk.foundConfig /\ ~lk.foundIcon
    /\ "t1" \notin DOMAIN Catalog
    /\ ConfigFields(lk.t) = <<"", "", "", "">>
    /\ lk.t.IconLink = <<>>
    /\ lk.t.DockerCompose = "web"
    /\ lk.t.Path = <<"t1", "1">>

\* C12: a call of ReadTemplateVersion is never ended by a panic, whichever file of
\* the version directory cannot be read or parsed
BadFileTolerated == lk.pc # "panic"

\* the directory has an entry with the prefix config.yml, and none of them gives a
\* config: config.yml itself is missing, unreadable or not valid YAML
UnusableConfig(entries) ==
    /\ \E n \in DOMAIN entries : HasPrefix(n, "config.yml")
    /\ ~(CanReadFile(entries, "config.yml") /\ entries["config.yml"].valid)

\* C14: a call on a version directory whose config entries give no config returns
\* the four config fields of the parent's entry, as a call on a directory without
\* a config entry does
ConfigFailureIsAbsence ==
    [][ ( /\ ConfigStep
          /\ VersionDirExists(tree, lk.path)
          /\ UnusableConfig(VersionEntries(tree, lk.path))
          /\ lk.path[1] \in DOMAIN Catalog )
        => ConfigFields(lk'.t) = ConfigFields(Catalog[lk.path[1]]) ]_vars

\* the sections of the rancher-compose file of a directory that have questions
QuestionSections(entries) ==
    LET n == "rancher-compose.yml" IN
    IF readFile(entries, n) /\ entries[n].valid
    THEN {k \in DOMAIN entries[n].yaml : entries[n].yaml[k].Questions # <<>>}
    ELSE {}

\* C15: when exactly one section of the rancher-compose file has questions, the
\* call returns that list, in its order, whatever other sections the file has
QuestionSetSelected ==
    ( /\ lk.pc \in {"inheritConfig", "inheritIcon", "done"}
      /\ VersionDirExists(tree, lk.path) )
    => LET entries == VersionEntries(tree, lk.path) IN
       \A k \in QuestionSections(entries) :
          QuestionSections(entries) = {k}
             => lk.t.Questions = entries["rancher-compose.yml"].yaml[k].Questions

\* the summaries a rebuild can publish for the parent of the path looked up
ParentSummaries(parentPath) ==
    { NewTemplate(parentPath, t.entries[parentPath]) :
        t \in {u \in VersionTrees : u.exists /\ parentPath \in DOMAIN u.entries} }

\* C18: a call on a version directory with neither a config entry nor an icon
\* entry returns config fields and an icon path that are those of one summary of
\* the parent, or all empty when the parent has none, also while a rebuild runs
InheritFromOneSummary ==
    ( /\ lk.pc = "done" /\ lk.exists
      /\ ~lk.foundConfig /\ ~lk.foundIcon )
    => \/ /\ ConfigFields(lk.t) = ConfigFields(EmptyTemplate)
          /\ lk.t.IconLink = <<>>
       \/ \E parent \in ParentSummaries(lk.path[1]) :
             /\ ConfigFields(lk.t) = ConfigFields(parent)
             /\ lk.t.IconLink = parent.IconLink

\* C19: a step of a ReadTemplateVersion call, whatever the path and whether or not
\* the parent has an entry, and a RefreshCatalog call that finds the gate taken
\* leave the mapping and the gate as they are; the mapping changes only in a step
\* of the bootstrap or of the refresh cycle that holds the gate
ReadersLeaveMapping ==
    [][ /\ lk' # lk => (Catalog' = Catalog /\ gate' = gate)
        /\ \A g \in Refreshers :
             (CanTrigger(g) /\ ~CanSend(gate) /\ stats'.drops = stats.drops + 1)
               => (Catalog' = Catalog /\ gate' = gate)
        /\ Catalog' # Catalog
             => \/ pc[Main] \in {"init", "walk"}
                \/ \E g \in Refreshers : pc[g] = "walk" /\ gate = 1
      ]_vars

\* C19 witness: a trigger was dropped, a call on a missing directory and a call on
\* an existing one have returned, and templates are published
ReadersWitness ==
    /\ alive /\ stats.drops >= 1
    /\ lk.pc = "done" /\ lk.exists /\ lk.notFound.seen
    /\ DOMAIN Catalog # {}

====
